---- MODULE Spec2Model ----
(***************************************************************************)
(* A model of the morpho class object (src/src/classes/clss.c: class      *)
(* creation and C3 linearization), of the random number engine             *)
(* (src/src/support/random.c: xoshiro256++ and xoshiro256+) and of the     *)
(* Lagrange discretization (src/morpho5/geometry/discretization.c).        *)
(*                                                                         *)
(* Classes are the integers 1..NumClasses, created in that order.  A       *)
(* varray_value is modelled by the sequence of its first `count` elements. *)
(* A 64-bit word is modelled by the set of the positions of its one bits.  *)
(***************************************************************************)
EXTENDS Integers, Sequences, FiniteSets

VARIABLES nclasses, cur, parents, children, superclass, linearization,
          linearized, last,
          xoshiro256pp_state, xoshiro256p_state, ndraws, lastrng,
          objects, lastctor, loop

classvars == <<nclasses, cur, parents, children, superclass, linearization,
               linearized, last>>
rngvars == <<xoshiro256pp_state, xoshiro256p_state, ndraws, lastrng>>
discvars == <<objects, lastctor>>
loopvars == <<loop>>
vars == <<nclasses, cur, parents, children, superclass, linearization,
          linearized, last, xoshiro256pp_state, xoshiro256p_state, ndraws,
          lastrng, objects, lastctor, loop>>

(***************************************************************************)
(* Bounds                                                                  *)
(***************************************************************************)
NumClasses == 4
MaxParents == 2
MaxListLen == 2

Class == 1..NumClasses

\* The NULL class pointer.
NoClass == 0

\* A value that is no class reference: what a read of a linearization that
\* was never written can yield when the memory is not zero.
Garbage == 0

(***************************************************************************)
(* List utilities of clss.c                                                *)
(***************************************************************************)

\* i in 1..count-1 of the C code is position i+1 here.
_intail(list, v) == \E i \in 2..Len(list) : list[i] = v

\* The list without the element at position i: the memcpy moves the
\* following elements one place down and count is decremented.
RemoveAt(list, i) == SubSeq(list, 1, i - 1) \o SubSeq(list, i + 1, Len(list))

\* The loop of _remove from position i on: after a removal the loop index
\* still advances, so the element moved into position i is not examined.
RECURSIVE RemoveLoop(_, _, _)
RemoveLoop(list, v, i) ==
    IF i > Len(list) THEN list
    ELSE IF list[i] = v THEN RemoveLoop(RemoveAt(list, i), v, i + 1)
    ELSE RemoveLoop(list, v, i + 1)

\* _remove whose loop starts at the second element.
_remove_tail(list, v) == RemoveLoop(list, v, 2)

_remove(list, v) == RemoveLoop(list, v, 1)

\* _inanytail looking at in->, the first list, in every iteration.
_inanytail_first(n, in, v) == \E i \in 1..n : _intail(in[1], v)

_inanytail(n, in, v) == \E i \in 1..n : _intail(in[i], v)

\* The loop of _done tests in->count, the count of the first list, n times.
_done(n, in) == \A i \in 1..n : ~(Len(in[1]) > 0)

\* The loop of _merge from list i on.  The result is the return value and
\* the lists and the output after the call.
RECURSIVE MergeLoop(_, _, _, _)
MergeLoop(n, in, out, i) ==
    IF i > n THEN [ret |-> FALSE, in |-> in, out |-> out]
    ELSE IF Len(in[i]) = 0 THEN MergeLoop(n, in, out, i + 1)
    ELSE IF _inanytail(n, in, in[i][1]) THEN MergeLoop(n, in, out, i + 1)
    ELSE [ret |-> TRUE,
          in |-> [j \in 1..n |-> _remove(in[j], in[i][1])],
          out |-> Append(out, in[i][1])]

_merge(n, in, out) == MergeLoop(n, in, out, 1)

\* L is the content of every class's linearization as the call reads it.
_init(parent, out, L) == IF Len(L[parent]) > 0 THEN out \o L[parent] ELSE out

\* while (success && !_done(n, lin)) success=_merge(n, lin, out);
RECURSIVE LinearizeLoop(_, _, _, _)
LinearizeLoop(n, lin, out, success) ==
    IF success /\ ~_done(n, lin)
    THEN LET m == _merge(n, lin, out)
         IN LinearizeLoop(n, m.in, m.out, m.ret)
    ELSE [ret |-> success, lin |-> lin, out |-> out]

\* _linearize without the write of klass at the start of the list.
_linearize_nowrite(klass, plist, out, L) ==
    LET n == Len(plist)
        L1 == [L EXCEPT ![klass] = out]
    IN IF n = 0 THEN [ret |-> TRUE, lin |-> <<>>, out |-> out]
       ELSE LinearizeLoop(n, [i \in 1..n |-> _init(plist[i], <<>>, L1)],
                          out, TRUE)

\* The result is the return value, the output list, and the local lists
\* lin as they are when the loop ends (before they are cleared).  out is
\* klass's own linearization, so a parent that is klass itself is read as
\* out stands after the first write.
_linearize(klass, plist, out, L) ==
    LET out1 == Append(out, klass)
        n == Len(plist)
        L1 == [L EXCEPT ![klass] = out1]
    IN IF n = 0 THEN [ret |-> TRUE, lin |-> <<>>, out |-> out1]
       ELSE LinearizeLoop(n, [i \in 1..n |-> _init(plist[i], <<>>, L1)],
                          out1, TRUE)

\* class_linearize without the reset of the count.
class_linearize_keep(klass, plist, prev, L) == _linearize(klass, plist, prev, L)

\* klass->linearization.count=0 keeps none of the previous elements prev.
class_linearize(klass, plist, prev, L) ==
    _linearize(klass, plist, SubSeq(prev, 1, 0), L)

(***************************************************************************)
(* State of the class objects                                              *)
(***************************************************************************)

\* What a read of a linearization that object_newclass left unwritten can
\* yield: count zero, or a stale non-zero count over stale data.
UninitContents == {<<>>, <<Garbage>>}

\* The contents a read of class c's linearization can yield.
Stored(c) == IF c \in linearized THEN {linearization[c]} ELSE UninitContents

NoCall == [op |-> "none", klass |-> NoClass, ret |-> TRUE, lin |-> <<>>]

InitClasses ==
    /\ nclasses = 0
    /\ cur = NoClass
    /\ parents = [c \in Class |-> <<>>]
    /\ children = [c \in Class |-> <<>>]
    /\ superclass = [c \in Class |-> NoClass]
    /\ linearization = [c \in Class |-> <<>>]
    /\ linearized = {}
    /\ last = NoCall

\* object_newclass: parents and children are initialised, superclass is
\* NULL; the linearization field is not written.  The new class is the one
\* being defined until it is linearized.
object_newclass ==
    /\ cur = NoClass
    /\ nclasses < NumClasses
    /\ nclasses' = nclasses + 1
    /\ cur' = nclasses + 1
    /\ parents' = [parents EXCEPT ![nclasses + 1] = <<>>]
    /\ children' = [children EXCEPT ![nclasses + 1] = <<>>]
    /\ superclass' = [superclass EXCEPT ![nclasses + 1] = NoClass]
    /\ last' = [NoCall EXCEPT !.op = "object_newclass", !.klass = nclasses + 1]
    /\ UNCHANGED <<linearization, linearized>>

InSeq(list, v) == \E i \in 1..Len(list) : list[i] = v

\* add-parent of the class component: parent is appended to the child's
\* parents, child to the parent's children, and the first parent becomes
\* the superclass.  The child is the class being defined; the parent is a
\* class defined before, or (the programmer error of a cycle, made at most
\* once) the child itself.
add_parent(child, parent) ==
    /\ child = cur /\ child # NoClass
    /\ parent \in linearized \cup {child}
    /\ parent = child => \A c \in Class : ~InSeq(parents[c], c)
    /\ ~InSeq(parents[child], parent)
    /\ Len(parents[child]) < MaxParents
    /\ parents' = [parents EXCEPT ![child] = Append(@, parent)]
    /\ children' = [children EXCEPT ![parent] = Append(@, child)]
    /\ superclass' = [superclass EXCEPT
                         ![child] = IF Len(parents[child]) = 0 THEN parent ELSE @]
    /\ last' = [NoCall EXCEPT !.op = "add_parent", !.klass = child]
    /\ UNCHANGED <<nclasses, cur, linearization, linearized>>

\* The linearizations when _init shares the parent's array with lin[i]
\* instead of copying it: the removals of the merge reach the parents.
LinearizationAfterShared(klass, r) ==
    [c \in Class |->
        IF c = klass THEN r.out
        ELSE IF InSeq(parents[klass], c)
        THEN r.lin[CHOOSE i \in 1..Len(parents[klass]) : parents[klass][i] = c]
        ELSE linearization[c]]

\* The linearization function after class_linearize(klass) returned r:
\* only klass's own list is written; the parents' lists were copied.
LinearizationAfter(klass, r) == [linearization EXCEPT ![klass] = r.out]

\* A call of class_linearize(klass), which ends the definition of klass.
call_class_linearize(klass) ==
    /\ klass = cur /\ klass # NoClass
    /\ \E prev \in Stored(klass) :
          LET r == class_linearize(klass, parents[klass], prev, linearization)
          IN /\ linearization' = LinearizationAfter(klass, r)
             /\ last' = [op |-> "class_linearize", klass |-> klass,
                         ret |-> r.ret, lin |-> r.lin]
    /\ linearized' = linearized \cup {klass}
    /\ cur' = NoClass
    /\ UNCHANGED <<nclasses, parents, children, superclass>>

NextClasses ==
    \/ object_newclass
    \/ \E child \in Class : \E parent \in Class : add_parent(child, parent)
    \/ \E klass \in Class : call_class_linearize(klass)

(***************************************************************************)
(* The merge loop of _linearize, one iteration at a time.  loop.lin and    *)
(* loop.out are the local lists lin[0..n-1] and the output list, loop.pc   *)
(* is "while" at the test of the loop and "return" after it, and           *)
(* loop.copies are the memcpy calls of the last iteration.                 *)
(***************************************************************************)

\* sizeof(value) of the build: 8 when values are NaN-boxed, 16 when they
\* are tagged structs.
SizeofValues == {8, 16}

\* memcpy(list->data+i, list->data+i+1, sizeof(value)*list->count-i-1):
\* the number of bytes the call copies, for sizeof(value) = sz.
MemcpyBytes(sz, count, i) == sz * count - i - 1

\* The memcpy calls of the loop of _remove from position i on, each with
\* the count of the list and the C index at the time of the call.
RECURSIVE RemoveCopies(_, _, _)
RemoveCopies(list, v, i) ==
    IF i > Len(list) THEN {}
    ELSE IF list[i] = v
    THEN {[count |-> Len(list), i |-> i - 1]}
            \cup RemoveCopies(RemoveAt(list, i), v, i + 1)
    ELSE RemoveCopies(list, v, i + 1)

\* The memcpy calls of the call _merge(n, in, out) that returned m.
MergeCopies(n, in, m) ==
    IF m.ret
    THEN UNION {RemoveCopies(in[j], m.out[Len(m.out)], 1) : j \in 1..n}
    ELSE {}

\* The elements the lists hold together.
TotalCount(lists) ==
    LET RECURSIVE Sum(_)
        Sum(j) == IF j = 0 THEN 0 ELSE Len(lists[j]) + Sum(j - 1)
    IN Sum(Len(lists))

ListValues == 1..MaxListLen

\* The lists a parent's linearization can hold: with cycles and repeated
\* linearization, any sequence of classes.
InputLists ==
    UNION {[1..len -> ListValues] : len \in 0..MaxListLen}

\* The class being linearized.
LoopClass == 1

IdleLoop == [pc |-> "return", lin |-> <<>>, out |-> <<>>, success |-> TRUE,
             copies |-> {}]

InitLoopIdle == loop = IdleLoop

\* The state when the while loop is reached: klass is written to out, the
\* n >= 1 lists are copies of the parents' linearizations, success is true.
InitLoop ==
    \E n \in 1..MaxParents : \E lists \in [1..n -> InputLists] :
        loop = [pc |-> "while", lin |-> lists, out |-> <<LoopClass>>,
                success |-> TRUE, copies |-> {}]

\* One iteration: success=_merge(n, lin, out).
merge_iteration ==
    /\ loop.pc = "while"
    /\ loop.success /\ ~_done(Len(loop.lin), loop.lin)
    /\ LET n == Len(loop.lin)
           m == _merge(n, loop.lin, loop.out)
       IN loop' = [pc |-> "while", lin |-> m.in, out |-> m.out,
                   success |-> m.ret,
                   copies |-> MergeCopies(n, loop.lin, m)]

\* The loop test fails: the lists are cleared and success is returned.
loop_exit ==
    /\ loop.pc = "while"
    /\ ~(loop.success /\ ~_done(Len(loop.lin), loop.lin))
    /\ loop' = [loop EXCEPT !.pc = "return",
                            !.lin = [j \in 1..Len(loop.lin) |-> <<>>],
                            !.copies = {}]

NextLoop ==
    \/ merge_iteration
    \/ loop_exit

(***************************************************************************)
(* Random engine (random.c).  A uint64_t is the set of the positions       *)
(* 0..63 of its one bits.                                                  *)
(***************************************************************************)
WordBits == 64

Bit == 0..(WordBits - 1)

Xor(a, b) == {i \in Bit : (i \in a) # (i \in b)}

Or(a, b) == {i \in Bit : i \in a \/ i \in b}

\* x << k and x >> k on 64 bits.
Shl(x, k) == {i \in Bit : i >= k /\ (i - k) \in x}
Shr(x, k) == {i \in Bit : (i + k) \in x}

\* The carry into position i of a + b: some lower position generates a
\* carry and every position between propagates it.
Carry(a, b, i) ==
    \E j \in 0..(i - 1) : /\ j \in a /\ j \in b
                          /\ \A k \in (j + 1)..(i - 1) : k \in a \/ k \in b

\* a + b modulo 2^64.
Add(a, b) == {i \in Bit : (i \in a) # ((i \in b) # Carry(a, b, i))}

\* The word whose 16 hexadecimal digits, most significant first, are d.
HexWord(d) == {b \in Bit : (d[16 - (b \div 4)] \div (2 ^ (b % 4))) % 2 = 1}

\* (x << k) | (x >> (64 - k))
xoshiro256pp_rotl(x, k) == Or(Shl(x, k), Shr(x, WordBits - k))
xoshiro256p_rotl(x, k) == Or(Shl(x, k), Shr(x, WordBits - k))

\* The six state assignments shared by next() and xoshiro256p_next(), with
\* the rotation of the generator at hand; s[1..4] are state[0..3].
xoshiro256pp_step(s) ==
    LET t == Shl(s[2], 17)
        s2a == Xor(s[3], s[1])
        s3a == Xor(s[4], s[2])
        s1a == Xor(s[2], s2a)
        s0a == Xor(s[1], s3a)
        s2b == Xor(s2a, t)
        s3b == xoshiro256pp_rotl(s3a, 45)
    IN <<s0a, s1a, s2b, s3b>>

xoshiro256p_step(s) ==
    LET t == Shl(s[2], 17)
        s2a == Xor(s[3], s[1])
        s3a == Xor(s[4], s[2])
        s1a == Xor(s[2], s2a)
        s0a == Xor(s[1], s3a)
        s2b == Xor(s2a, t)
        s3b == xoshiro256p_rotl(s3a, 45)
    IN <<s0a, s1a, s2b, s3b>>

\* next(): the result and the state of xoshiro256++ after the call.
next_result(s) == Add(xoshiro256pp_rotl(Add(s[1], s[4]), 23), s[1])
next(s) == [result |-> next_result(s), state |-> xoshiro256pp_step(s)]

\* xoshiro256p_next(): the result and the state of xoshiro256+ after it.
xoshiro256p_next_result(s) == Add(s[1], s[4])
xoshiro256p_next(s) ==
    [result |-> xoshiro256p_next_result(s), state |-> xoshiro256p_step(s)]

JUMP ==
    <<HexWord(<<1, 8, 0, 14, 12, 6, 13, 3, 3, 12, 15, 13, 0, 10, 11, 10>>),
      HexWord(<<13, 5, 10, 6, 1, 2, 6, 6, 15, 0, 12, 9, 3, 9, 2, 12>>),
      HexWord(<<10, 9, 5, 8, 2, 6, 1, 8, 14, 0, 3, 15, 12, 9, 10, 10>>),
      HexWord(<<3, 9, 10, 11, 13, 12, 4, 5, 2, 9, 11, 1, 6, 6, 1, 12>>)>>

LONG_JUMP ==
    <<HexWord(<<7, 6, 14, 1, 5, 13, 3, 14, 15, 14, 15, 13, 12, 11, 11, 15>>),
      HexWord(<<12, 5, 0, 0, 4, 14, 4, 4, 1, 12, 5, 2, 2, 15, 11, 3>>),
      HexWord(<<7, 7, 7, 1, 0, 0, 6, 9, 8, 5, 4, 14, 14, 2, 4, 1>>),
      HexWord(<<3, 9, 1, 0, 9, 11, 11, 0, 2, 10, 12, 11, 14, 6, 3, 5>>)>>

ZeroState == <<{}, {}, {}, {}>>

XorState(a, b) == <<Xor(a[1], b[1]), Xor(a[2], b[2]), Xor(a[3], b[3]),
                    Xor(a[4], b[4])>>

\* Bit b of word i of a jump table, for the loop counter k = 64*i + b.
JumpBit(J, k) == (k % WordBits) \in J[(k \div WordBits) + 1]

\* The number of iterations of the two nested loops of a jump function.
JumpLen(J) == Len(J) * WordBits

\* The iterations lo..hi-1 of the two nested loops of xoshiro256pp_jump and
\* xoshiro256pp_longjump, run in order (the first half, then the second):
\* acc is s0..s3, pp the state of xoshiro256++.  The test r = r has the
\* first half evaluated before the second half starts.
RECURSIVE JumpItersPP(_, _, _, _, _)
JumpItersPP(J, lo, hi, acc, pp) ==
    IF hi = lo + 1
    THEN [acc |-> IF JumpBit(J, lo) THEN XorState(acc, pp) ELSE acc,
          pp |-> xoshiro256pp_step(pp)]
    ELSE LET mid == (lo + hi) \div 2
             r == JumpItersPP(J, lo, mid, acc, pp)
         IN IF r = r THEN JumpItersPP(J, mid, hi, r.acc, r.pp) ELSE r

\* The loops and the final assignment of s0..s3 to the state.
JumpPP(J, pp) == [pp |-> JumpItersPP(J, 0, JumpLen(J), ZeroState, pp).acc]

\* The iterations lo..hi-1 of the loops of xoshiro256p_jump and
\* xoshiro256p_longjump: the accumulator collects the state p of
\* xoshiro256+, and the call in the loop body is next(), which steps the
\* state pp of xoshiro256++.
RECURSIVE JumpItersP(_, _, _, _, _, _)
JumpItersP(J, lo, hi, acc, p, pp) ==
    IF hi = lo + 1
    THEN [acc |-> IF JumpBit(J, lo) THEN XorState(acc, p) ELSE acc,
          pp |-> xoshiro256pp_step(pp)]
    ELSE LET mid == (lo + hi) \div 2
             r == JumpItersP(J, lo, mid, acc, p, pp)
         IN IF r = r THEN JumpItersP(J, mid, hi, r.acc, p, r.pp) ELSE r

JumpP(J, p, pp) ==
    LET r == JumpItersP(J, 0, JumpLen(J), ZeroState, p, pp)
    IN [p |-> r.acc, pp |-> r.pp]

MaxDraws == 2

\* The states the generators are started from.
SeedStates == {<<{0}, {}, {}, {}>>,
               <<{63}, {1, 2}, {}, {5}>>,
               <<{0, 17, 45}, {3}, {62, 63}, {0}>>}

InitRandom ==
    /\ xoshiro256pp_state \in SeedStates
    /\ xoshiro256p_state \in SeedStates
    /\ ndraws = 0
    /\ lastrng = [op |-> "none", ret |-> {}, pp |-> ZeroState, p |-> ZeroState]

\* What every operation records: its name, its result, and the two states
\* it started from.
Called(op, ret) == [op |-> op, ret |-> ret, pp |-> xoshiro256pp_state,
                    p |-> xoshiro256p_state]

\* (double) (x >> 11) * 0x1.0p-53: the result is recorded as the 53-bit
\* integer x >> 11.
random_double ==
    /\ ndraws < MaxDraws
    /\ LET x == xoshiro256p_next(xoshiro256p_state)
       IN /\ xoshiro256p_state' = x.state
          /\ lastrng' = Called("random_double", Shr(x.result, 11))
    /\ ndraws' = ndraws + 1
    /\ UNCHANGED xoshiro256pp_state

\* (unsigned int) (x>>32)
random_int ==
    /\ ndraws < MaxDraws
    /\ LET x == xoshiro256p_next(xoshiro256p_state)
       IN /\ xoshiro256p_state' = x.state
          /\ lastrng' = Called("random_int", Shr(x.result, 32))
    /\ ndraws' = ndraws + 1
    /\ UNCHANGED xoshiro256pp_state

call_next ==
    /\ ndraws < MaxDraws
    /\ LET x == next(xoshiro256pp_state)
       IN /\ xoshiro256pp_state' = x.state
          /\ lastrng' = Called("next", x.result)
    /\ ndraws' = ndraws + 1
    /\ UNCHANGED xoshiro256p_state

xoshiro256pp_jump ==
    /\ ndraws < MaxDraws
    /\ xoshiro256pp_state' = JumpPP(JUMP, xoshiro256pp_state).pp
    /\ lastrng' = Called("xoshiro256pp_jump", {})
    /\ ndraws' = ndraws + 1
    /\ UNCHANGED xoshiro256p_state

xoshiro256pp_longjump ==
    /\ ndraws < MaxDraws
    /\ xoshiro256pp_state' =
           JumpPP(LONG_JUMP, xoshiro256pp_state).pp
    /\ lastrng' = Called("xoshiro256pp_longjump", {})
    /\ ndraws' = ndraws + 1
    /\ UNCHANGED xoshiro256p_state

xoshiro256p_jump ==
    /\ ndraws < MaxDraws
    /\ LET r == JumpP(JUMP, xoshiro256p_state, xoshiro256pp_state)
       IN /\ xoshiro256p_state' = r.p
          /\ xoshiro256pp_state' = r.pp
    /\ lastrng' = Called("xoshiro256p_jump", {})
    /\ ndraws' = ndraws + 1

xoshiro256p_longjump ==
    /\ ndraws < MaxDraws
    /\ LET r == JumpP(LONG_JUMP, xoshiro256p_state, xoshiro256pp_state)
       IN /\ xoshiro256p_state' = r.p
          /\ xoshiro256pp_state' = r.pp
    /\ lastrng' = Called("xoshiro256p_longjump", {})
    /\ ndraws' = ndraws + 1

NextRandom ==
    \/ random_double
    \/ random_int
    \/ call_next
    \/ xoshiro256pp_jump
    \/ xoshiro256pp_longjump
    \/ xoshiro256p_jump
    \/ xoshiro256p_longjump

(***************************************************************************)
(* Discretization objects (discretization.c).  The heap is the sequence    *)
(* `objects` of the discretization objects bound to the VM; an object      *)
(* reference is a position in it, and NULL is 0.                           *)
(***************************************************************************)
MaxObjects == 2
MaxOrder == 2
MaxArgs == 2

NULL == 0

\* Grade of a line element (glossary: 0 = vertex, 1 = line).
MESH_GRADE_LINE == 1

LAGRANGE_CONSTRUCTORNAME == "lagrange"

MORPHO_NIL == [type |-> "nil", v |-> 0]
MORPHO_INTEGER(i) == [type |-> "integer", v |-> i]
MORPHO_OBJECT(ref) == [type |-> "object", v |-> ref]
MORPHO_ISOBJECT(x) == x.type = "object"

\* The values passed as first argument: nil and the integers -1..MaxOrder.
ArgValues == {MORPHO_NIL} \cup {MORPHO_INTEGER(i) : i \in (0 - 1)..MaxOrder}

\* An integer value is stored in out; any other value leaves out as it was.
morpho_valuetoint(val, out) ==
    IF val.type = "integer" THEN [ret |-> TRUE, out |-> val.v]
    ELSE [ret |-> FALSE, out |-> out]

\* The fields of an object that object_new did not allocate.
NoDiscretization ==
    [label |-> "", order |-> 0, g |-> 0, shape |-> [ptr |-> FALSE, data |-> <<>>]]

\* discretization_init: shape.ptr tells whether MORPHO_MALLOC returned
\* memory (shapemem); the g+1 entries of that memory are not written.
discretization_init(label, order, g, shapemem) ==
    [d |-> [label |-> label, order |-> order, g |-> g,
            shape |-> [ptr |-> shapemem,
                       data |-> IF shapemem THEN [i \in 1..(g + 1) |-> Garbage]
                                ELSE <<>>]],
     ret |-> shapemem]

\* object_newdiscretization whose loop runs while i<grade.
object_newdiscretization_short(label, order, grade, shape, objmem, shapemem) ==
    IF ~objmem THEN [new |-> FALSE, d |-> NoDiscretization, nullwrites |-> {}]
    ELSE LET r == discretization_init(label, order, grade, shapemem)
         IN [new |-> TRUE,
             d |-> IF r.d.shape.ptr
                   THEN [r.d EXCEPT !.shape.data =
                            [i \in 1..Len(@) |-> IF i <= grade THEN shape[i] ELSE @[i]]]
                   ELSE r.d,
             nullwrites |-> IF r.d.shape.ptr THEN {} ELSE 0..(grade - 1)]

\* object_newdiscretization: objmem tells whether object_new returned an
\* object.  The result of discretization_init is not tested: the loop
\* for (i=0; i<=grade; i++) new->d.shape[i]=shape[i] runs in every case, and
\* nullwrites are the indices it writes through a NULL shape.
object_newdiscretization(label, order, grade, shape, objmem, shapemem) ==
    IF ~objmem THEN [new |-> FALSE, d |-> NoDiscretization, nullwrites |-> {}]
    ELSE LET r == discretization_init(label, order, grade, shapemem)
         IN [new |-> TRUE,
             d |-> IF r.d.shape.ptr
                   THEN [r.d EXCEPT !.shape.data =
                            [i \in 1..Len(@) |-> IF i <= grade + 1 THEN shape[i] ELSE @[i]]]
                   ELSE r.d,
             nullwrites |-> IF r.d.shape.ptr THEN {} ELSE 0..grade]

\* lagrange_constructor up to the call of object_newdiscretization; arg0 is
\* MORPHO_GETARG(args, 0), the only argument the function reads.
lagrange_constructor(nargs, arg0, objmem, shapemem) ==
    LET order == IF nargs = 1 THEN morpho_valuetoint(arg0, 1).out ELSE 1
        shape == <<1, order - 1>>
    IN object_newdiscretization(LAGRANGE_CONSTRUCTORNAME, order,
                                MESH_GRADE_LINE, shape, objmem, shapemem)

NoCtor == [op |-> "none", nargs |-> 0, arg0 |-> MORPHO_NIL, objmem |-> TRUE,
           shapemem |-> TRUE, new |-> NULL, nullwrites |-> {},
           crashed |-> FALSE, ret |-> MORPHO_NIL]

InitDiscretization ==
    /\ objects = <<>>
    /\ lastctor = NoCtor

\* A call of the Lagrange constructor.  A write through a NULL shape is
\* undefined: the process is stopped by the fault (crashed), or runs on.
\* An object that is returned is bound to the VM.
call_lagrange_constructor ==
    /\ ~lastctor.crashed
    /\ Len(objects) < MaxObjects
    /\ \E nargs \in 0..MaxArgs : \E arg0 \in ArgValues :
       \E objmem \in BOOLEAN : \E shapemem \in BOOLEAN : \E crash \in BOOLEAN :
          LET r == lagrange_constructor(nargs, arg0, objmem, shapemem)
              new == IF r.new THEN Len(objects) + 1 ELSE NULL
              out == IF new # NULL THEN MORPHO_OBJECT(new) ELSE MORPHO_NIL
          IN /\ nargs = 0 => arg0 = MORPHO_NIL
             /\ crash => r.nullwrites # {}
             /\ objects' = IF MORPHO_ISOBJECT(out) /\ ~crash
                           THEN Append(objects, r.d) ELSE objects
             /\ lastctor' = [op |-> "lagrange_constructor", nargs |-> nargs,
                             arg0 |-> arg0, objmem |-> objmem,
                             shapemem |-> shapemem,
                             new |-> IF crash THEN NULL ELSE new,
                             nullwrites |-> r.nullwrites, crashed |-> crash,
                             ret |-> IF crash THEN MORPHO_NIL ELSE out]

\* The order method of a discretization object.
Discretization_order(self) ==
    /\ ~lastctor.crashed
    /\ self \in 1..Len(objects)
    /\ lastctor' = [NoCtor EXCEPT !.op = "order", !.new = self,
                       !.ret = MORPHO_INTEGER(objects[self].order)]
    /\ UNCHANGED objects

NextDiscretization ==
    \/ call_lagrange_constructor
    \/ \E self \in 1..MaxObjects : Discretization_order(self)

\* The generators before any operation of the random engine is used.
InitRngIdle ==
    /\ xoshiro256pp_state = ZeroState
    /\ xoshiro256p_state = ZeroState
    /\ ndraws = 0
    /\ lastrng = [op |-> "none", ret |-> {}, pp |-> ZeroState, p |-> ZeroState]

Init == InitClasses /\ InitRngIdle /\ InitDiscretization /\ InitLoopIdle

Next == NextClasses /\ UNCHANGED <<rngvars, discvars, loopvars>>

Spec == Init /\ [][Next]_vars

\* The random engine on its own: no class is created.
RandomInit ==
    InitClasses /\ InitRandom /\ InitDiscretization /\ InitLoopIdle

RandomNext == NextRandom /\ UNCHANGED <<classvars, discvars, loopvars>>

SpecRandom == RandomInit /\ [][RandomNext]_vars

\* The discretization objects on their own.
DiscretizationInit ==
    InitClasses /\ InitRngIdle /\ InitDiscretization /\ InitLoopIdle

DiscretizationNext ==
    NextDiscretization /\ UNCHANGED <<classvars, rngvars, loopvars>>

SpecDiscretization == DiscretizationInit /\ [][DiscretizationNext]_vars

\* The merge loop on its own, from every start the bounds allow.
LoopInit == InitClasses /\ InitRngIdle /\ InitDiscretization /\ InitLoop

LoopNext == NextLoop /\ UNCHANGED <<classvars, rngvars, discvars>>

SpecLoop == LoopInit /\ [][LoopNext]_vars

\* The loop runs on: an iteration that can be taken is taken.
SpecLoopFair == SpecLoop /\ WF_vars(LoopNext)

(***************************************************************************)
(* Properties of class_linearize                                           *)
(***************************************************************************)

\* The last operation was class_linearize(k), and it has returned.
Linearized(k) == last.op = "class_linearize" /\ last.klass = k

NoDuplicates(list) ==
    \A i \in 1..Len(list) : \A j \in 1..Len(list) : list[i] = list[j] => i = j

\* The positions of the lists that are non-empty and whose head is in the
\* tail of no list.
GoodHeads(lists) ==
    {i \in 1..Len(lists) :
        /\ lists[i] # <<>>
        /\ \A j \in 1..Len(lists) :
              \A m \in 2..Len(lists[j]) : lists[j][m] # Head(lists[i])}

Least(S) == CHOOSE i \in S : \A j \in S : i <= j

Without(list, v) == SelectSeq(list, LAMBDA x : x # v)

\* The C3 merge of the lists, appended to out: ok tells whether it ran to
\* the end.
RECURSIVE C3Merge(_, _)
C3Merge(lists, out) ==
    IF \A i \in 1..Len(lists) : lists[i] = <<>> THEN [ok |-> TRUE, out |-> out]
    ELSE IF GoodHeads(lists) = {} THEN [ok |-> FALSE, out |-> out]
    ELSE LET h == Head(lists[Least(GoodHeads(lists))])
         IN C3Merge([j \in 1..Len(lists) |-> Without(lists[j], h)],
                    Append(out, h))

\* [k] followed by merge(L(P1), ..., L(Pn), [P1, ..., Pn]).
CanonicalC3(k) ==
    LET n == Len(parents[k])
    IN C3Merge([i \in 1..(n + 1) |->
                   IF i <= n THEN linearization[parents[k][i]] ELSE parents[k]],
               <<k>>)

\* C1: for a class k whose parents were all linearized before the call,
\* class_linearize(k) returns success exactly when the canonical C3 merge of
\* the parents' linearizations and the parent list succeeds, and then the
\* stored linearization is the canonical one.
C1_CanonicalC3 ==
    \A k \in Class :
        (Linearized(k) /\ ~InSeq(parents[k], k)) =>
            /\ last.ret = CanonicalC3(k).ok
            /\ last.ret => linearization[k] = CanonicalC3(k).out

\* C2: class_linearize does not return success while one of its input lists
\* still holds elements, and it returns failure when the lists it ends with
\* hold elements but offer no good head.
C2_FailsWhenStuck ==
    last.op = "class_linearize" =>
        /\ last.ret => \A i \in 1..Len(last.lin) : last.lin[i] = <<>>
        /\ ((\E i \in 1..Len(last.lin) : last.lin[i] # <<>>)
              /\ GoodHeads(last.lin) = {}) => ~last.ret

\* The hierarchy X; Y inherits X; Z inherits X, Y, with Z just linearized.
InconsistentHierarchy(X, Y, Z) ==
    /\ X # Y /\ Y # Z /\ X # Z
    /\ parents[X] = <<>> /\ parents[Y] = <<X>> /\ parents[Z] = <<X, Y>>
    /\ {X, Y} \subseteq linearized
    /\ Linearized(Z)

\* C3: for X; Y inherits X; Z inherits X, Y, class_linearize(Z) fails.
C3_InconsistentFails ==
    \A X \in Class : \A Y \in Class : \A Z \in Class :
        InconsistentHierarchy(X, Y, Z) => ~last.ret

\* The diamond A; B inherits A; C inherits A; D inherits B, C, with D just
\* linearized.
Diamond(A, B, C, D) ==
    /\ Cardinality({A, B, C, D}) = 4
    /\ parents[A] = <<>> /\ parents[B] = <<A>> /\ parents[C] = <<A>>
    /\ parents[D] = <<B, C>>
    /\ {A, B, C} \subseteq linearized
    /\ Linearized(D)

\* C4: in the diamond, class_linearize(D) succeeds and stores [D, B, C, A].
C4_Diamond ==
    \A A \in Class : \A B \in Class : \A C \in Class : \A D \in Class :
        Diamond(A, B, C, D) =>
            last.ret /\ linearization[D] = <<D, B, C, A>>

C4_Witness ==
    \E A \in Class : \E B \in Class : \E C \in Class : \E D \in Class :
        Diamond(A, B, C, D) /\ last.ret /\ linearization[D] = <<D, B, C, A>>

\* C5 as stated: every class that exists, from object_newclass on, has a
\* non-empty linearization that begins with the class itself, whatever a
\* read of the field yields.
C5_AlwaysBeginsWithSelf ==
    \A c \in 1..nclasses : \A l \in Stored(c) : l # <<>> /\ Head(l) = c

\* C5 amended: every class on which class_linearize has been called, with
\* success or failure, has a non-empty linearization that begins with the
\* class itself.
C5_BeginsWithSelfOnceLinearized ==
    \A c \in linearized : linearization[c] # <<>> /\ Head(linearization[c]) = c

\* A class with a parent was linearized and the call failed.
C5_Witness ==
    \E c \in linearized :
        /\ Linearized(c) /\ ~last.ret /\ parents[c] # <<>>
        /\ Head(linearization[c]) = c

\* The classes reachable from the classes S along at most n parent links.
RECURSIVE Ancestors(_, _)
Ancestors(S, n) ==
    LET P == {p \in Class : \E c \in S : InSeq(parents[c], p)}
    IN IF n = 0 THEN {} ELSE P \cup Ancestors(P, n - 1)

\* C6: when k is its own ancestor, class_linearize(k) returns failure, and a
\* linearization stored with success holds no class twice.
C6_CycleDetected ==
    \A k \in Class :
        Linearized(k) =>
            /\ k \in Ancestors({k}, NumClasses) => ~last.ret
            /\ last.ret => NoDuplicates(linearization[k])

\* The contents klass's linearization may hold before a call.
PrevContents ==
    UninitContents \cup {linearization[c] : c \in Class}
                   \cup {<<c>> : c \in Class}

\* The states (lists and output) in which the loop of _linearize calls
\* _merge, starting from lin and out.
RECURSIVE MergeCalls(_, _, _)
MergeCalls(n, lin, out) ==
    IF _done(n, lin) THEN {}
    ELSE LET m == _merge(n, lin, out)
         IN {[lin |-> lin, out |-> out]} \cup
            (IF m.ret THEN MergeCalls(n, m.in, m.out) ELSE {})

\* The lists class_linearize(k) starts its loop with.
StartLists(k) ==
    [i \in 1..Len(parents[k]) |->
        IF parents[k][i] = k THEN <<k>> ELSE linearization[parents[k][i]]]

\* C7: the return value and the stored sequence of class_linearize(k) are
\* the same whatever k's linearization held before the call, and every
\* merge step appends the head of the lowest-indexed list whose head is a
\* good head (and fails when there is none).
C7_Deterministic ==
    \A k \in Class :
        Linearized(k) =>
            /\ \A prev \in PrevContents :
                  LET r == class_linearize(k, parents[k], prev,
                               [linearization EXCEPT ![k] = prev])
                  IN r.ret = last.ret /\ r.out = linearization[k]
            /\ \A st \in MergeCalls(Len(parents[k]), StartLists(k), <<k>>) :
                  LET m == _merge(Len(parents[k]), st.lin, st.out)
                      G == GoodHeads(st.lin)
                  IN /\ m.ret = (G # {})
                     /\ m.ret => m.out = Append(st.out, Head(st.lin[Least(G)]))

\* A class with two parents was linearized with a step that passed over
\* the first list.
C7_Witness ==
    \E k \in Class :
        /\ Linearized(k) /\ Len(parents[k]) >= 2
        /\ \E st \in MergeCalls(Len(parents[k]), StartLists(k), <<k>>) :
              GoodHeads(st.lin) # {} /\ Least(GoodHeads(st.lin)) > 1

\* C8: a call of class_linearize(k) changes nothing but k's linearization:
\* the linearization of every other class, and the parents, children and
\* superclass of every class, are as before.
C8_Frame ==
    [][last'.op = "class_linearize" =>
          /\ \A c \in Class \ {last'.klass} :
                linearization'[c] = linearization[c]
          /\ parents' = parents
          /\ children' = children
          /\ superclass' = superclass]_vars

\* A failed call on a class whose parents hold linearizations.
C8_Witness ==
    /\ last.op = "class_linearize" /\ ~last.ret
    /\ parents[last.klass] # <<>>
    /\ \E i \in 1..Len(parents[last.klass]) :
          /\ parents[last.klass][i] # last.klass
          /\ linearization[parents[last.klass][i]] # <<>>

(***************************************************************************)
(* Properties of the random engine                                         *)
(***************************************************************************)

PlusOps == {"random_double", "random_int", "xoshiro256p_jump",
            "xoshiro256p_longjump"}

PlusPlusOps == {"next", "xoshiro256pp_jump", "xoshiro256pp_longjump"}

\* C9: an operation on xoshiro256+ leaves the state of xoshiro256++ as it
\* was before the operation, and an operation on xoshiro256++ leaves the
\* state of xoshiro256+ as it was.
C9_Independent ==
    /\ lastrng.op \in PlusOps => xoshiro256pp_state = lastrng.pp
    /\ lastrng.op \in PlusPlusOps => xoshiro256p_state = lastrng.p

\* The states s, f(s), ..., f^(n-1)(s), for f the step of xoshiro256++.
RECURSIVE OrbitPP(_, _)
OrbitPP(s, n) ==
    IF n = 1 THEN <<s>>
    ELSE LET a == OrbitPP(s, n \div 2)
         IN IF a = a
            THEN a \o OrbitPP(xoshiro256pp_step(a[Len(a)]), n - (n \div 2))
            ELSE a

\* The same for the step of xoshiro256+.
RECURSIVE OrbitP(_, _)
OrbitP(s, n) ==
    IF n = 1 THEN <<s>>
    ELSE LET a == OrbitP(s, n \div 2)
         IN IF a = a
            THEN a \o OrbitP(xoshiro256p_step(a[Len(a)]), n - (n \div 2))
            ELSE a

\* The XOR of the states orbit[k+1] over the positions k set in the jump
\* table J: a bit is set when it is set in an odd number of them.
XorOver(orbit, J) ==
    [w \in 1..4 |->
        {i \in Bit :
            Cardinality({k \in 0..(JumpLen(J) - 1) :
                            JumpBit(J, k) /\ i \in orbit[k + 1][w]}) % 2 = 1}]

\* C10: after a jump or long jump the state of the generator is the XOR,
\* over the positions k set in JUMP or LONG_JUMP, of the generator's own
\* step applied k times to the state before the call.
C10_JumpAdvances ==
    /\ lastrng.op = "xoshiro256pp_jump" =>
          xoshiro256pp_state = XorOver(OrbitPP(lastrng.pp, JumpLen(JUMP)), JUMP)
    /\ lastrng.op = "xoshiro256pp_longjump" =>
          xoshiro256pp_state =
              XorOver(OrbitPP(lastrng.pp, JumpLen(LONG_JUMP)), LONG_JUMP)
    /\ lastrng.op = "xoshiro256p_jump" =>
          xoshiro256p_state = XorOver(OrbitP(lastrng.p, JumpLen(JUMP)), JUMP)
    /\ lastrng.op = "xoshiro256p_longjump" =>
          xoshiro256p_state =
              XorOver(OrbitP(lastrng.p, JumpLen(LONG_JUMP)), LONG_JUMP)

(***************************************************************************)
(* Properties of the Lagrange constructor                                  *)
(***************************************************************************)

\* The last operation was a call of lagrange_constructor that returned.
Constructed == lastctor.op = "lagrange_constructor" /\ ~lastctor.crashed

\* The last call found memory for the object and for the shape vector.
AllocationsSucceeded == lastctor.objmem /\ lastctor.shapemem

\* C11: a call of the Lagrange constructor for which memory is available
\* returns the object reference of a new discretization whose grade is the
\* line grade and whose shape is [1, order-1]; its order is 1 when the call
\* has no argument, and n when the call has the one integer argument n.
C11_LagrangeBuilds ==
    (Constructed /\ AllocationsSucceeded) =>
        /\ lastctor.new = Len(objects)
        /\ lastctor.new # NULL
        /\ lastctor.ret = MORPHO_OBJECT(lastctor.new)
        /\ LET d == objects[lastctor.new]
           IN /\ d.g = MESH_GRADE_LINE
              /\ d.shape.ptr
              /\ d.shape.data = <<1, d.order - 1>>
              /\ lastctor.nargs = 0 => d.order = 1
              /\ (lastctor.nargs = 1 /\ lastctor.arg0.type = "integer")
                     => d.order = lastctor.arg0.v

\* A call with the integer argument 2 has built a second object of order 2.
C11_Witness ==
    /\ Constructed /\ AllocationsSucceeded
    /\ lastctor.nargs = 1
    /\ lastctor.arg0 = MORPHO_INTEGER(2)
    /\ lastctor.ret = MORPHO_OBJECT(2)
    /\ objects[2].order = 2
    /\ objects[2].shape.data = <<1, 1>>

\* C12: every discretization object that lagrange_constructor returns, for
\* any number of arguments and any integer argument (zero and negative
\* ones included), has order >= 1 and a shape vector of exactly g+1 entries.
C12_OrderAndShape ==
    (Constructed /\ MORPHO_ISOBJECT(lastctor.ret)) =>
        LET d == objects[lastctor.ret.v]
        IN /\ d.order >= 1
           /\ d.shape.ptr
           /\ Len(d.shape.data) = d.g + 1

\* C13: when object_new or the MORPHO_MALLOC of discretization_init finds
\* no memory, nothing is written through the unallocated shape vector,
\* object_newdiscretization returns NULL and lagrange_constructor returns
\* nil.
C13_AllocationFailure ==
    (lastctor.op = "lagrange_constructor" /\ ~AllocationsSucceeded) =>
        /\ lastctor.nullwrites = {}
        /\ ~lastctor.crashed
        /\ lastctor.new = NULL
        /\ lastctor.ret = MORPHO_NIL

(***************************************************************************)
(* Further properties of class_linearize                                   *)
(***************************************************************************)

\* No class is its own ancestor.
Acyclic == \A c \in Class : c \notin Ancestors({c}, NumClasses)

\* Every parent of k was linearized before k, with success.  A parent was
\* defined before k and nothing it read has been written since, so the
\* return value of its call is the one the same call yields now.
ParentsSucceeded(k) ==
    \A i \in 1..Len(parents[k]) :
        LET p == parents[k][i]
        IN /\ p \in linearized
           /\ p # k
           /\ class_linearize(p, parents[p], <<>>, linearization).ret

\* The number of positions of list that hold v.
Occurrences(list, v) == Cardinality({i \in 1..Len(list) : list[i] = v})

\* The classes k's linearization has to hold: k, its parents, and the
\* classes of its parents' linearizations.
Required(k) ==
    {k} \cup {parents[k][i] : i \in 1..Len(parents[k])}
        \cup UNION {{linearization[parents[k][i]][j] :
                        j \in 1..Len(linearization[parents[k][i]])} :
                    i \in 1..Len(parents[k])}

\* C14: when class_linearize(k) returns success for a class k with at least
\* one parent in an acyclic hierarchy whose parents were all linearized with
\* success before, k's linearization holds k, every parent of k and every
\* class of a parent's linearization, each exactly once.
C14_Complete ==
    \A k \in Class :
        (/\ Linearized(k) /\ last.ret
         /\ Len(parents[k]) >= 1
         /\ Acyclic
         /\ ParentsSucceeded(k)) =>
            \A c \in Required(k) : Occurrences(linearization[k], c) = 1

\* C15: the merge loop of class_linearize terminates for every input,
\* inconsistent and cyclic ones included: every iteration either removes at
\* least one element from the input lists or sets success to false, after
\* which the loop is left; and the loop is left eventually.
C15_Terminates ==
    /\ [][/\ (loop.pc = "while" /\ loop'.pc = "while") =>
                \/ TotalCount(loop'.lin) < TotalCount(loop.lin)
                \/ ~loop'.success
          /\ (loop.pc = "while" /\ ~loop.success) => loop'.pc = "return"]_vars
    /\ <>(loop.pc = "return")

\* The loop has been left with success after two iterations or more.
C15_Witness ==
    /\ loop.pc = "return"
    /\ loop.success
    /\ Len(loop.out) >= 3

\* C17: every memcpy of _remove, removing at index i of a list of count
\* elements, moves exactly the count-i-1 elements that follow index i, so
\* the bytes it reads (from data+i+1) and writes (at data+i) lie within
\* the first count elements of the list's data.
C17_CopyInBounds ==
    \A sz \in SizeofValues : \A cp \in loop.copies :
        LET bytes == MemcpyBytes(sz, cp.count, cp.i)
        IN /\ cp.count >= 1 /\ 0 <= cp.i /\ cp.i < cp.count
           /\ bytes = sz * (cp.count - cp.i - 1)
           /\ sz * (cp.i + 1) + bytes <= sz * cp.count
           /\ sz * cp.i + bytes <= sz * cp.count

(***************************************************************************)
(* Further properties of the random engine                                 *)
(***************************************************************************)

\* C16: seeded with states that are not everywhere zero, neither generator
\* ever has a state that is everywhere zero, whatever sequence of
\* random_double, random_int, next and the four jumps is run.
C16_NeverAllZero ==
    /\ xoshiro256p_state # ZeroState
    /\ xoshiro256pp_state # ZeroState

====
